---- MODULE Spec2Model ----
(***************************************************************************)
(* State-machine model of src/src/main.cpp: a single-threaded OpenGL       *)
(* program that imports (or builds from literals) one textured mesh,       *)
(* uploads it, and renders it in a loop until the window is closed.        *)
(*                                                                         *)
(* Floating-point coordinates are carried as integers in units of 0.5      *)
(* (so -0.5 is -1 and 1.0 is 2); no arithmetic other than the importer's   *)
(* UV flip (v' = 1 - v) is performed on them.                              *)
(* Index lists are 0-based as in the source; TLA+ sequences are 1-based.   *)
(***************************************************************************)
EXTENDS Integers, Sequences, FiniteSets, TLC

VARIABLES
    pc,             \* position of the main thread
    exitCode,       \* -1 while the process runs, else its exit status
    diagnostic,     \* error text printed to std::cout ("" when none)
    windowOpen,     \* sf::Window constructed (line 220)
    pending,        \* the window's queue of undelivered events
    delivered,      \* number of events the windowing system has queued so far
    sceneKind,      \* which scene initialiser main runs (line 225 or 226)
    flags,          \* assimpLoad's post-processing flags
    scene,          \* result of importer.ReadFile
    srcMesh,        \* the aiMesh handed to fromAssimpMesh
    vertices,       \* std::vector<Vertex3D> local
    faces,          \* std::vector<uint32_t> local
    haveMesh,       \* a Mesh value has been constructed
    m,              \* the Mesh value (constructMesh's m, then bunny's/main's obj)
    vbo, ebo,       \* constructMesh's buffer-name locals
    glVAOs,         \* vertex array names generated so far
    glBuffers,      \* buffer names generated so far
    glTextures,     \* texture names generated so far
    boundVAO,       \* GL_VERTEX_ARRAY_BINDING
    boundArrayBuffer, \* GL_ARRAY_BUFFER_BINDING
    boundTexture,   \* GL_TEXTURE_BINDING_2D
    vaoElementBuffer, \* element-array binding recorded in each VAO
    vaoAttribs,     \* enabled vertex attributes of each VAO
    bufferData,     \* contents of each buffer object
    activeProgram,  \* program made current by program.activate() (0 = none)
    uniforms,       \* uniform names set since the current iteration began
    running,        \* the loop flag of main
    iterTrace,      \* steps completed in the current loop iteration
    glDrawsInCall,  \* glDrawElements calls issued by the current drawMesh call
    drawMeshCalls,  \* drawMesh calls in the current loop iteration
    lastDraw,       \* arguments and bindings of the latest glDrawElements
    drawsAfterClose,    \* glDrawElements calls issued after a Closed was polled
    presentsAfterClose, \* window.display calls after a Closed was polled
    fromAssimpCalled,   \* fromAssimpMesh has been entered
    constructCalled,    \* constructMesh has been entered
    importOutcome,      \* what ReadFile produced: "none", "null", "empty", "ok"
    shaderOutcome,      \* what shader.load did: "none", "ok", "runtime_error"
    closedSeen,         \* a Closed event has been returned by pollEvent
    textureSets         \* assignments made to the Mesh's texture field

vars == << pc, exitCode, diagnostic, windowOpen, pending, delivered, sceneKind,
           flags, scene, srcMesh, vertices, faces, haveMesh, m, vbo, ebo,
           glVAOs, glBuffers, glTextures, boundVAO, boundArrayBuffer,
           boundTexture, vaoElementBuffer, vaoAttribs, bufferData,
           activeProgram, uniforms, running, iterTrace, glDrawsInCall,
           drawMeshCalls, lastDraw, drawsAfterClose, presentsAfterClose,
           fromAssimpCalled, constructCalled, importOutcome, shaderOutcome,
           closedSeen, textureSets >>

----------------------------------------------------------------------------
(* Bounds of the model *)

MaxVerts == 2
MaxFaces == 2
MaxMeshes == 1
MaxEvents == 2

(* Program constants *)

VERTICES_PER_FACE == 3

----------------------------------------------------------------------------
(* Input domains *)

EventTypes == {"Closed", "Resized"}

\* Source vertices: a position and the first UV channel's coordinate.
VertexPool ==
    { [pos |-> <<-1, -1, 0>>, uv |-> <<0, 2>>],
      [pos |-> << 1,  1, 0>>, uv |-> <<2, 0>> ] }

\* Triangular faces, as index triples.
FacePool == { <<1, 0, 1>>, <<2, 1, 0>> }

SeqsOfLen(S, lo, hi) == UNION { [1..k -> S] : k \in lo..hi }

FacesInRange(nv) == { t \in FacePool : \A j \in 1..3 : t[j] < nv }

\* aiMesh: validated meshes have at least one vertex and one face, and every
\* face index refers to a vertex.
AiMeshes ==
    UNION { { [ mVertices       |-> [i \in 1..Len(vs) |-> vs[i].pos],
                mTextureCoords0 |-> [i \in 1..Len(vs) |-> vs[i].uv],
                mFaces          |-> fs ] :
              fs \in SeqsOfLen(FacesInRange(Len(vs)), 1, MaxFaces) } :
            vs \in SeqsOfLen(VertexPool, 1, MaxVerts) }

FillerMesh ==
    [ mVertices |-> << <<0, 0, 0>> >>, mTextureCoords0 |-> << <<0, 0>> >>,
      mFaces |-> << <<0, 0, 0>> >> ]

NullScene == [ ok |-> FALSE, mMeshes |-> << >> ]

\* Asset files: unparseable, or a scene of 0..MaxMeshes meshes.  Only the
\* first mesh of a scene is ever read by the program, so the others are fixed.
Assets ==
    { NullScene } \cup { [ ok |-> TRUE, mMeshes |-> << >> ] } \cup
    { [ ok |-> TRUE, mMeshes |-> <<a>> \o [i \in 1..(n - 1) |-> FillerMesh] ] :
      a \in AiMeshes, n \in 1..MaxMeshes }

ZeroMesh == [ vao |-> 0, faces |-> 0, texture |-> 0 ]
NoDraw == [ mode |-> "none", count |-> 0, vao |-> 0, texture |-> 0, program |-> 0 ]

----------------------------------------------------------------------------
(* Pure helpers *)

\* aiProcess_FlipUVs: v' = 1 - v on every UV coordinate (1.0 is 2 half-units).
FlipUVs(mesh) ==
    [ mesh EXCEPT !.mTextureCoords0 =
        [i \in 1..Len(mesh.mTextureCoords0) |->
            << mesh.mTextureCoords0[i][1], 2 - mesh.mTextureCoords0[i][2] >>] ]

\* importer.ReadFile(path, flags): the parsed scene, post-processed.
ReadFile(asset, fl) ==
    IF "FlipUVs" \in fl
    THEN [ asset EXCEPT !.mMeshes = [i \in 1..Len(asset.mMeshes) |-> FlipUVs(asset.mMeshes[i])] ]
    ELSE asset

\* fromAssimpMesh, first loop: { x, y, z } aggregate-initialises u and v to 0.
FromAssimpVertices(mesh) ==
    [ i \in 1..Len(mesh.mVertices) |->
        [ x |-> mesh.mVertices[i][1], y |-> mesh.mVertices[i][2],
          z |-> mesh.mVertices[i][3], u |-> 0, v |-> 0 ] ]

\* Mutant: only the first two indices of each face are pushed.
RECURSIVE FromAssimpFaces_TwoPerFace(_)
FromAssimpFaces_TwoPerFace(fs) ==
    IF fs = << >> THEN << >>
    ELSE << Head(fs)[1], Head(fs)[2] >> \o FromAssimpFaces_TwoPerFace(Tail(fs))

\* fromAssimpMesh, second loop: three indices per face, in order.
RECURSIVE FromAssimpFaces(_)
FromAssimpFaces(fs) ==
    IF fs = << >> THEN << >>
    ELSE << Head(fs)[1], Head(fs)[2], Head(fs)[3] >> \o FromAssimpFaces(Tail(fs))

\* Mutant: the face count is stored as a number of triangles.
MeshFaces_Triangles(fs) == Len(fs) \div VERTICES_PER_FACE

\* constructMesh line 48: m.faces = faces.size().  The narrowing from size_t
\* to uint32_t is the identity on every length below 2^32, which covers all
\* lengths the model's integers can express.
MeshFaces(fs) == Len(fs)

\* Literal data of triangle().
triangleVertices ==
    << [x |-> -1, y |-> -1, z |-> 0, u |-> 0, v |-> 2],
       [x |-> -1, y |->  1, z |-> 0, u |-> 0, v |-> 0],
       [x |->  1, y |->  1, z |-> 0, u |-> 2, v |-> 0] >>
triangleFaces == << 2, 1, 0 >>

\* glGen*: the next unused name.
GenName(names) == Cardinality(names) + 1

----------------------------------------------------------------------------
(* Initial state: the process has just entered main. *)

Init ==
    /\ pc = "main_start"
    /\ exitCode = -1
    /\ diagnostic = ""
    /\ windowOpen = FALSE
    /\ pending = << >>
    /\ delivered = 0
    /\ sceneKind = "none"
    /\ flags = {}
    /\ scene = NullScene
    /\ srcMesh = FillerMesh
    /\ vertices = << >>
    /\ faces = << >>
    /\ haveMesh = FALSE
    /\ m = ZeroMesh
    /\ vbo = 0
    /\ ebo = 0
    /\ glVAOs = {}
    /\ glBuffers = {}
    /\ glTextures = {}
    /\ boundVAO = 0
    /\ boundArrayBuffer = 0
    /\ boundTexture = 0
    /\ vaoElementBuffer = << >>
    /\ vaoAttribs = << >>
    /\ bufferData = << >>
    /\ activeProgram = 0
    /\ uniforms = {}
    /\ running = TRUE
    /\ iterTrace = << >>
    /\ glDrawsInCall = 0
    /\ drawMeshCalls = 0
    /\ lastDraw = NoDraw
    /\ drawsAfterClose = 0
    /\ presentsAfterClose = 0
    /\ fromAssimpCalled = FALSE
    /\ constructCalled = FALSE
    /\ importOutcome = "none"
    /\ shaderOutcome = "none"
    /\ closedSeen = FALSE
    /\ textureSets = 0

procVars == << exitCode, diagnostic >>
envVars == << windowOpen, pending, delivered >>
importVars == << sceneKind, flags, scene, srcMesh, vertices, faces,
                 fromAssimpCalled, importOutcome >>
meshVars == << haveMesh, m, vbo, ebo, constructCalled, textureSets >>
glVars == << glVAOs, glBuffers, glTextures, boundVAO, boundArrayBuffer,
             boundTexture, vaoElementBuffer, vaoAttribs, bufferData >>
histVars == << shaderOutcome, closedSeen >>
loopVars == << activeProgram, uniforms, running, iterTrace, glDrawsInCall,
               drawMeshCalls, lastDraw, drawsAfterClose, presentsAfterClose >>

----------------------------------------------------------------------------
(* Process termination *)

\* exit(code) after printing text to std::cout.
Exit(code, text) ==
    /\ pc' = "exited"
    /\ exitCode' = code
    /\ diagnostic' = text

\* Abnormal termination by a memory fault (SIGSEGV): no diagnostic of the
\* program's own, non-zero status.
Crash ==
    /\ pc' = "exited"
    /\ exitCode' = 139
    /\ diagnostic' = diagnostic

----------------------------------------------------------------------------
(* The windowing system queues an event; the program does not control when. *)

DeliverEvent ==
    /\ windowOpen
    /\ pc # "exited"
    /\ delivered < MaxEvents
    /\ \E e \in EventTypes : pending' = Append(pending, e)
    /\ delivered' = delivered + 1
    /\ UNCHANGED << histVars, pc, procVars, windowOpen, importVars, meshVars, glVars, loopVars >>

----------------------------------------------------------------------------
(* main, lines 211-222: create the window and load OpenGL. *)

MainStart ==
    /\ pc = "main_start"
    /\ windowOpen' = TRUE
    /\ pc' = "scene_init"
    /\ UNCHANGED << histVars, procVars, pending, delivered, importVars, meshVars, glVars, loopVars >>

(* main, line 225: Mesh obj = bunny(); bunny calls assimpLoad(path, true). *)
SceneBunny ==
    /\ pc = "scene_init"
    /\ sceneKind' = "bunny"
    /\ pc' = "al_ReadFile"
    /\ UNCHANGED << histVars, procVars, envVars, flags, scene, srcMesh, vertices, faces,
                    fromAssimpCalled, importOutcome, meshVars, glVars, loopVars >>

(* main, line 226 (the alternative initialiser): Mesh obj = triangle(). *)
SceneTriangle ==
    /\ pc = "scene_init"
    /\ sceneKind' = "triangle"
    /\ vertices' = triangleVertices
    /\ faces' = triangleFaces
    /\ pc' = "cm_begin"
    /\ UNCHANGED << histVars, procVars, envVars, flags, scene, srcMesh,
                    fromAssimpCalled, importOutcome, meshVars, glVars, loopVars >>

----------------------------------------------------------------------------
(* assimpLoad *)

\* Lines 118-124: build the flags (flipUvs is true) and read the file.
AssimpReadFile ==
    /\ pc = "al_ReadFile"
    /\ flags' = {"TargetRealtime_MaxQuality", "FlipUVs"}
    /\ \E asset \in Assets :
         /\ scene' = ReadFile(asset, flags')
         /\ importOutcome' = IF ~asset.ok THEN "null"
                             ELSE IF asset.mMeshes = << >> THEN "empty" ELSE "ok"
    /\ pc' = "al_check"
    /\ UNCHANGED << histVars, procVars, envVars, sceneKind, srcMesh, vertices, faces,
                    fromAssimpCalled, meshVars, glVars, loopVars >>

\* Lines 127-133: only a null scene is reported; anything else goes on.
AssimpCheck ==
    /\ pc = "al_check"
    /\ IF ~scene.ok
       THEN Exit(1, "ASSIMP ERROR")
       ELSE /\ pc' = "al_fromAssimpMesh"
            /\ UNCHANGED procVars
    /\ UNCHANGED << histVars, envVars, importVars, meshVars, glVars, loopVars >>

\* Lines 90-113, the whole of fromAssimpMesh applied to mesh.
FromAssimpMesh(mesh) ==
    /\ fromAssimpCalled' = TRUE
    /\ srcMesh' = mesh
    /\ vertices' = vertices \o FromAssimpVertices(mesh)
    /\ faces' = faces \o FromAssimpFaces(mesh.mFaces)
    /\ pc' = "cm_begin"
    /\ UNCHANGED procVars

\* Line 134 when the scene has a first mesh.
AssimpFirstMesh ==
    /\ pc = "al_fromAssimpMesh"
    /\ Len(scene.mMeshes) >= 1
    /\ FromAssimpMesh(scene.mMeshes[1])
    /\ UNCHANGED << histVars, envVars, sceneKind, flags, scene, importOutcome, meshVars,
                    glVars, loopVars >>

\* Line 134 when the scene has no mesh: scene->mMeshes[0] reads outside the
\* array.  The process either faults (at the read, or inside fromAssimpMesh
\* on the pointer it was given), or fromAssimpMesh treats whatever the pointer
\* refers to as a mesh.
AssimpNoMesh ==
    /\ pc = "al_fromAssimpMesh"
    /\ Len(scene.mMeshes) = 0
    /\ \/ /\ Crash
          /\ fromAssimpCalled' \in BOOLEAN
          /\ UNCHANGED << srcMesh, vertices, faces >>
       \/ \E garbage \in AiMeshes : FromAssimpMesh(garbage)
    /\ UNCHANGED << histVars, envVars, sceneKind, flags, scene, importOutcome, meshVars,
                    glVars, loopVars >>
----------------------------------------------------------------------------
(* constructMesh, one action per statement *)

\* Lines 47-48: Mesh m{}; m.faces = faces.size().
ConstructMeshBegin ==
    /\ pc = "cm_begin"
    /\ constructCalled' = TRUE
    /\ haveMesh' = TRUE
    /\ m' = [ ZeroMesh EXCEPT !.faces = MeshFaces(faces) ]
    /\ pc' = "cm_genVAO"
    /\ UNCHANGED << histVars, procVars, envVars, importVars, vbo, ebo, textureSets, glVars, loopVars >>

\* Line 51: glGenVertexArrays(1, &m.vao).
ConstructMeshGenVAO ==
    /\ pc = "cm_genVAO"
    /\ m' = [ m EXCEPT !.vao = GenName(glVAOs) ]
    /\ glVAOs' = glVAOs \cup { GenName(glVAOs) }
    /\ vaoElementBuffer' = Append(vaoElementBuffer, 0)
    /\ vaoAttribs' = Append(vaoAttribs, {})
    /\ pc' = "cm_bindVAO"
    /\ UNCHANGED << histVars, procVars, envVars, importVars, haveMesh, vbo, ebo, constructCalled,
                    textureSets, glBuffers, glTextures, boundVAO, boundArrayBuffer,
                    boundTexture, bufferData, loopVars >>

\* Line 53: glBindVertexArray(m.vao).
ConstructMeshBindVAO ==
    /\ pc = "cm_bindVAO"
    /\ boundVAO' = m.vao
    /\ pc' = "cm_genVBO"
    /\ UNCHANGED << histVars, procVars, envVars, importVars, meshVars, glVAOs, glBuffers, glTextures,
                    boundArrayBuffer, boundTexture, vaoElementBuffer, vaoAttribs,
                    bufferData, loopVars >>

\* Lines 56-57: glGenBuffers(1, &vbo).
ConstructMeshGenVBO ==
    /\ pc = "cm_genVBO"
    /\ vbo' = GenName(glBuffers)
    /\ glBuffers' = glBuffers \cup { GenName(glBuffers) }
    /\ bufferData' = Append(bufferData, << >>)
    /\ pc' = "cm_bindVBO"
    /\ UNCHANGED << histVars, procVars, envVars, importVars, haveMesh, m, ebo, constructCalled,
                    textureSets, glVAOs, glTextures, boundVAO, boundArrayBuffer,
                    boundTexture, vaoElementBuffer, vaoAttribs, loopVars >>

\* Line 60: glBindBuffer(GL_ARRAY_BUFFER, vbo).
ConstructMeshBindVBO ==
    /\ pc = "cm_bindVBO"
    /\ boundArrayBuffer' = vbo
    /\ pc' = "cm_vboData"
    /\ UNCHANGED << histVars, procVars, envVars, importVars, meshVars, glVAOs, glBuffers, glTextures,
                    boundVAO, boundTexture, vaoElementBuffer, vaoAttribs, bufferData,
                    loopVars >>

\* Line 63: glBufferData(GL_ARRAY_BUFFER, ..., &vertices[0], GL_STATIC_DRAW).
ConstructMeshVertexData ==
    /\ pc = "cm_vboData"
    /\ bufferData' = [ bufferData EXCEPT ![boundArrayBuffer] = vertices ]
    /\ pc' = "cm_attrib"
    /\ UNCHANGED << histVars, procVars, envVars, importVars, meshVars, glVAOs, glBuffers, glTextures,
                    boundVAO, boundArrayBuffer, boundTexture, vaoElementBuffer,
                    vaoAttribs, loopVars >>

\* Lines 65-66: attribute 0 is 3 floats at offset 0 of the bound array buffer.
\* No second attribute is configured (lines 67-68 are a TODO).
ConstructMeshAttrib ==
    /\ pc = "cm_attrib"
    /\ vaoAttribs' = [ vaoAttribs EXCEPT ![boundVAO] =
                         @ \cup { [ index |-> 0, size |-> 3, offset |-> 0,
                                    buffer |-> boundArrayBuffer ] } ]
    /\ pc' = "cm_genEBO"
    /\ UNCHANGED << histVars, procVars, envVars, importVars, meshVars, glVAOs, glBuffers, glTextures,
                    boundVAO, boundArrayBuffer, boundTexture, vaoElementBuffer,
                    bufferData, loopVars >>

\* Lines 74-75: glGenBuffers(1, &ebo).
ConstructMeshGenEBO ==
    /\ pc = "cm_genEBO"
    /\ ebo' = GenName(glBuffers)
    /\ glBuffers' = glBuffers \cup { GenName(glBuffers) }
    /\ bufferData' = Append(bufferData, << >>)
    /\ pc' = "cm_bindEBO"
    /\ UNCHANGED << histVars, procVars, envVars, importVars, haveMesh, m, vbo, constructCalled,
                    textureSets, glVAOs, glTextures, boundVAO, boundArrayBuffer,
                    boundTexture, vaoElementBuffer, vaoAttribs, loopVars >>

\* Line 76: glBindBuffer(GL_ELEMENT_ARRAY_BUFFER, ebo); the binding is
\* recorded in the bound vertex array.
ConstructMeshBindEBO ==
    /\ pc = "cm_bindEBO"
    /\ vaoElementBuffer' = [ vaoElementBuffer EXCEPT ![boundVAO] = ebo ]
    /\ pc' = "cm_eboData"
    /\ UNCHANGED << histVars, procVars, envVars, importVars, meshVars, glVAOs, glBuffers, glTextures,
                    boundVAO, boundArrayBuffer, boundTexture, vaoAttribs, bufferData,
                    loopVars >>

\* Line 77: glBufferData(GL_ELEMENT_ARRAY_BUFFER, ..., &faces[0], GL_STATIC_DRAW).
ConstructMeshIndexData ==
    /\ pc = "cm_eboData"
    /\ bufferData' = [ bufferData EXCEPT ![vaoElementBuffer[boundVAO]] = faces ]
    /\ pc' = "cm_unbind"
    /\ UNCHANGED << histVars, procVars, envVars, importVars, meshVars, glVAOs, glBuffers, glTextures,
                    boundVAO, boundArrayBuffer, boundTexture, vaoElementBuffer,
                    vaoAttribs, loopVars >>

\* Mutant: the vertex array is left bound.
ConstructMeshUnbind_LeftBound ==
    /\ pc = "cm_unbind"
    /\ pc' = "cm_return"
    /\ UNCHANGED << histVars, procVars, envVars, importVars, meshVars, glVars, loopVars >>

\* Line 80: glBindVertexArray(0).
ConstructMeshUnbind ==
    /\ pc = "cm_unbind"
    /\ boundVAO' = 0
    /\ pc' = "cm_return"
    /\ UNCHANGED << histVars, procVars, envVars, importVars, meshVars, glVAOs, glBuffers, glTextures,
                    boundArrayBuffer, boundTexture, vaoElementBuffer, vaoAttribs,
                    bufferData, loopVars >>

\* Line 82 (and 135-137, 184): return m; the callers' locals go out of
\* scope and, in assimpLoad, the importer and its scene are destroyed.
ConstructMeshReturn ==
    /\ pc = "cm_return"
    /\ vertices' = << >>
    /\ faces' = << >>
    /\ vbo' = 0
    /\ ebo' = 0
    /\ scene' = NullScene
    /\ srcMesh' = FillerMesh
    /\ pc' = "set_texture"
    /\ UNCHANGED << histVars, procVars, envVars, sceneKind, flags, fromAssimpCalled, importOutcome,
                    haveMesh, m, constructCalled, textureSets, glVars, loopVars >>

----------------------------------------------------------------------------
(* triangle lines 186-189 / bunny lines 196-199: load the image, run
   generateTexture (lines 150-172) and store its result in the mesh.
   generateTexture leaves the new texture bound. *)

SetTexture ==
    /\ pc = "set_texture"
    /\ glTextures' = glTextures \cup { GenName(glTextures) }
    /\ boundTexture' = GenName(glTextures)
    /\ m' = [ m EXCEPT !.texture = GenName(glTextures) ]
    /\ textureSets' = textureSets + 1
    /\ pc' = "textureShader"
    /\ UNCHANGED << histVars, procVars, envVars, importVars, haveMesh, vbo, ebo, constructCalled,
                    glVAOs, glBuffers, boundVAO, boundArrayBuffer, vaoElementBuffer,
                    vaoAttribs, bufferData, loopVars >>
----------------------------------------------------------------------------
(* textureShader and program activation *)

\* Mutant: the failure is reported but the process carries on.
TextureShader_NoExit ==
    /\ pc = "textureShader"
    /\ \E outcome \in {"ok", "runtime_error"} :
         /\ shaderOutcome' = outcome
         /\ diagnostic' = IF outcome = "ok" THEN diagnostic ELSE "ERROR: shader"
    /\ pc' = "activate"
    /\ UNCHANGED << closedSeen, exitCode, envVars, importVars, meshVars, glVars, loopVars >>

\* Lines 34-44 (called at line 232): shader.load either succeeds or throws
\* std::runtime_error, which is caught, printed, and followed by exit(1).
TextureShader ==
    /\ pc = "textureShader"
    /\ \E outcome \in {"ok", "runtime_error"} :
         /\ shaderOutcome' = outcome
         /\ IF outcome = "ok"
            THEN /\ pc' = "activate"
                 /\ UNCHANGED procVars
            ELSE Exit(1, "ERROR: shader")
    /\ UNCHANGED << closedSeen, envVars, importVars, meshVars, glVars, loopVars >>

\* Line 233: program.activate().
Activate ==
    /\ pc = "activate"
    /\ activeProgram' = 1
    /\ pc' = "loop_setup"
    /\ UNCHANGED << histVars, procVars, envVars, importVars, meshVars, glVars, uniforms, running,
                    iterTrace, glDrawsInCall, drawMeshCalls, lastDraw, drawsAfterClose,
                    presentsAfterClose >>

----------------------------------------------------------------------------
(* The render loop of main *)

AddStep(name) == iterTrace' = Append(iterTrace, name)

\* Lines 236-241: bool running = true; start the clock; enable depth test.
LoopSetup ==
    /\ pc = "loop_setup"
    /\ running' = TRUE
    /\ pc' = "loop_test"
    /\ UNCHANGED << histVars, procVars, envVars, importVars, meshVars, glVars, activeProgram,
                    uniforms, iterTrace, glDrawsInCall, drawMeshCalls, lastDraw,
                    drawsAfterClose, presentsAfterClose >>

\* Line 242 (and 270): while (running) ...; return 0.
LoopTest ==
    /\ pc = "loop_test"
    /\ IF running
       THEN /\ pc' = "poll"
            /\ iterTrace' = << >>
            /\ uniforms' = {}
            /\ drawMeshCalls' = 0
            /\ UNCHANGED procVars
       ELSE /\ Exit(0, diagnostic)
            /\ UNCHANGED << iterTrace, uniforms, drawMeshCalls >>
    /\ UNCHANGED << histVars, envVars, importVars, meshVars, glVars, activeProgram,
                    running, glDrawsInCall, lastDraw,
                    drawsAfterClose, presentsAfterClose >>

\* Mutant: a Closed event is polled like any other and leaves the flag alone.
PollEvent_ClosedIgnored ==
    /\ pc = "poll"
    /\ IF pending # << >>
       THEN /\ pending' = Tail(pending)
            /\ closedSeen' = (closedSeen \/ Head(pending) = "Closed")
            /\ UNCHANGED << pc, iterTrace, running >>
       ELSE /\ pc' = "measure"
            /\ AddStep("drain")
            /\ UNCHANGED << pending, running, closedSeen >>
    /\ UNCHANGED << shaderOutcome, procVars, windowOpen, delivered, importVars, meshVars,
                    glVars, activeProgram, uniforms, glDrawsInCall, drawMeshCalls,
                    lastDraw, drawsAfterClose, presentsAfterClose >>

\* Mutant: every event stops the loop.
PollEvent_AnyEventStops ==
    /\ pc = "poll"
    /\ IF pending # << >>
       THEN /\ pending' = Tail(pending)
            /\ running' = FALSE
            /\ closedSeen' = (closedSeen \/ Head(pending) = "Closed")
            /\ UNCHANGED << pc, iterTrace >>
       ELSE /\ pc' = "measure"
            /\ AddStep("drain")
            /\ UNCHANGED << pending, running, closedSeen >>
    /\ UNCHANGED << shaderOutcome, procVars, windowOpen, delivered, importVars, meshVars, glVars,
                    activeProgram, uniforms, glDrawsInCall, drawMeshCalls, lastDraw,
                    drawsAfterClose, presentsAfterClose >>

\* Lines 243-248: one evaluation of while (window.pollEvent(ev)) and, when an
\* event was returned, the loop body.
PollEvent ==
    /\ pc = "poll"
    /\ IF pending # << >>
       THEN /\ pending' = Tail(pending)
            /\ running' = IF Head(pending) = "Closed" THEN FALSE ELSE running
            /\ closedSeen' = (closedSeen \/ Head(pending) = "Closed")
            /\ UNCHANGED << pc, iterTrace >>
       ELSE /\ pc' = "measure"
            /\ AddStep("drain")
            /\ UNCHANGED << pending, running, closedSeen >>
    /\ UNCHANGED << shaderOutcome, procVars, windowOpen, delivered, importVars, meshVars, glVars,
                    activeProgram, uniforms, glDrawsInCall, drawMeshCalls, lastDraw,
                    drawsAfterClose, presentsAfterClose >>

\* A loop step that changes nothing but the position and the iteration trace.
PlainStep(from, to, name) ==
    /\ pc = from
    /\ pc' = to
    /\ AddStep(name)
    /\ UNCHANGED << histVars, procVars, envVars, importVars, meshVars, glVars, activeProgram,
                    uniforms, running, glDrawsInCall, drawMeshCalls,
                    lastDraw, drawsAfterClose, presentsAfterClose >>

\* program.setUniform(name, matrix) on the program object.
SetUniform(from, to, name) ==
    /\ pc = from
    /\ pc' = to
    /\ uniforms' = uniforms \cup { name }
    /\ AddStep(name)
    /\ UNCHANGED << histVars, procVars, envVars, importVars, meshVars, glVars, activeProgram,
                    running, glDrawsInCall, drawMeshCalls,
                    lastDraw, drawsAfterClose, presentsAfterClose >>

\* Lines 250-253: frame time is measured and printed.
Measure == PlainStep("measure", "set_view", "measure")

\* Lines 256, 258.
SetView == SetUniform("set_view", "set_projection", "view")

\* Lines 257, 259.
SetProjection == SetUniform("set_projection", "set_model", "projection")

\* Mutant: the model matrix is computed but not pushed.
SetModel_NotPushed == PlainStep("set_model", "clear", "model")

\* Lines 262-263.
SetModel == SetUniform("set_model", "clear", "model")

\* Line 265: glClear(GL_COLOR_BUFFER_BIT | GL_DEPTH_BUFFER_BIT).
Clear == PlainStep("clear", "dm_bindTexture", "clear")

----------------------------------------------------------------------------
(* drawMesh(obj), one action per statement *)

\* Line 266 entering drawMesh, line 140: glBindTexture(GL_TEXTURE_2D, m.texture).
DrawMeshBindTexture ==
    /\ pc = "dm_bindTexture"
    /\ drawMeshCalls' = drawMeshCalls + 1
    /\ glDrawsInCall' = 0
    /\ boundTexture' = m.texture
    /\ pc' = "dm_bindVAO"
    /\ UNCHANGED << histVars, procVars, envVars, importVars, meshVars, glVAOs, glBuffers, glTextures,
                    boundVAO, boundArrayBuffer, vaoElementBuffer, vaoAttribs, bufferData,
                    activeProgram, uniforms, running, iterTrace, lastDraw,
                    drawsAfterClose, presentsAfterClose >>

\* Line 141: glBindVertexArray(m.vao).
DrawMeshBindVAO ==
    /\ pc = "dm_bindVAO"
    /\ boundVAO' = m.vao
    /\ pc' = "dm_draw"
    /\ UNCHANGED << histVars, procVars, envVars, importVars, meshVars, glVAOs, glBuffers, glTextures,
                    boundArrayBuffer, boundTexture, vaoElementBuffer, vaoAttribs,
                    bufferData, loopVars >>

\* The glDrawElements call with the given index count.
DrawElements(count) ==
    /\ pc = "dm_draw"
    /\ lastDraw' = [ mode |-> "GL_TRIANGLES", count |-> count, vao |-> boundVAO,
                     texture |-> boundTexture, program |-> activeProgram ]
    /\ glDrawsInCall' = glDrawsInCall + 1
    /\ drawsAfterClose' = IF closedSeen THEN drawsAfterClose + 1 ELSE drawsAfterClose
    /\ pc' = "dm_unbindVAO"
    /\ UNCHANGED << histVars, procVars, envVars, importVars, meshVars, glVars, activeProgram,
                    uniforms, running, iterTrace, drawMeshCalls, presentsAfterClose >>

\* Mutant: the count passed is the number of triangles.
DrawMeshDraw_TriangleCount == DrawElements(m.faces \div VERTICES_PER_FACE)

\* Line 144: glDrawElements(GL_TRIANGLES, m.faces, GL_UNSIGNED_INT, nullptr).
DrawMeshDraw == DrawElements(m.faces)

\* Line 146: glBindVertexArray(0).
DrawMeshUnbindVAO ==
    /\ pc = "dm_unbindVAO"
    /\ boundVAO' = 0
    /\ pc' = "dm_unbindTexture"
    /\ UNCHANGED << histVars, procVars, envVars, importVars, meshVars, glVAOs, glBuffers, glTextures,
                    boundArrayBuffer, boundTexture, vaoElementBuffer, vaoAttribs,
                    bufferData, loopVars >>

\* Line 147: glBindTexture(GL_TEXTURE_2D, 0); drawMesh returns.
DrawMeshUnbindTexture ==
    /\ pc = "dm_unbindTexture"
    /\ boundTexture' = 0
    /\ AddStep("draw")
    /\ pc' = "display"
    /\ UNCHANGED << histVars, procVars, envVars, importVars, meshVars, glVAOs, glBuffers, glTextures,
                    boundVAO, boundArrayBuffer, vaoElementBuffer, vaoAttribs, bufferData,
                    activeProgram, uniforms, running, glDrawsInCall, drawMeshCalls,
                    lastDraw, drawsAfterClose, presentsAfterClose >>

\* Line 267: window.display(); the iteration ends.
Display ==
    /\ pc = "display"
    /\ AddStep("present")
    /\ presentsAfterClose' = IF closedSeen THEN presentsAfterClose + 1 ELSE presentsAfterClose
    /\ pc' = "loop_test"
    /\ UNCHANGED << histVars, procVars, envVars, importVars, meshVars, glVars, activeProgram,
                    uniforms, running, glDrawsInCall, drawMeshCalls, lastDraw,
                    drawsAfterClose >>

----------------------------------------------------------------------------
(* Specifications *)

ProgramStep ==
    \/ MainStart
    \/ SceneBunny
    \/ SceneTriangle
    \/ AssimpReadFile
    \/ AssimpCheck
    \/ AssimpFirstMesh
    \/ AssimpNoMesh
    \/ ConstructMeshBegin
    \/ ConstructMeshGenVAO
    \/ ConstructMeshBindVAO
    \/ ConstructMeshGenVBO
    \/ ConstructMeshBindVBO
    \/ ConstructMeshVertexData
    \/ ConstructMeshAttrib
    \/ ConstructMeshGenEBO
    \/ ConstructMeshBindEBO
    \/ ConstructMeshIndexData
    \/ ConstructMeshUnbind
    \/ ConstructMeshReturn
    \/ SetTexture
    \/ TextureShader
    \/ Activate
    \/ LoopSetup
    \/ LoopTest
    \/ PollEvent
    \/ Measure
    \/ SetView
    \/ SetProjection
    \/ SetModel
    \/ Clear
    \/ DrawMeshBindTexture
    \/ DrawMeshBindVAO
    \/ DrawMeshDraw
    \/ DrawMeshUnbindVAO
    \/ DrawMeshUnbindTexture
    \/ Display

Next == ProgramStep \/ DeliverEvent

Spec == Init /\ [][Next]_vars

\* The main thread keeps executing as long as it has a next statement; the
\* windowing system delivers at most MaxEvents events.
FairSpec == Spec /\ WF_vars(ProgramStep)

----------------------------------------------------------------------------
(* Vocabulary of the properties *)

\* Positions inside constructMesh, after its entry and before its return.
InsideConstructMesh ==
    { "cm_genVAO", "cm_bindVAO", "cm_genVBO", "cm_bindVBO", "cm_vboData",
      "cm_attrib", "cm_genEBO", "cm_bindEBO", "cm_eboData", "cm_unbind", "cm_return" }

\* Positions inside drawMesh, after its first statement.
InsideDrawMesh == { "dm_bindVAO", "dm_draw", "dm_unbindVAO", "dm_unbindTexture" }

\* Positions of the render loop.
InLoop ==
    { "loop_test", "poll", "measure", "set_view", "set_projection", "set_model",
      "clear", "dm_bindTexture", "display" } \cup InsideDrawMesh

IterationOrder ==
    << "drain", "measure", "view", "projection", "model", "clear", "draw", "present" >>

IsPrefix(s, t) == Len(s) <= Len(t) /\ \A i \in 1..Len(s) : s[i] = t[i]

Range(s) == { s[i] : i \in 1..Len(s) }

\* An iteration of the loop has just ended.
IterationEnded == pc = "loop_test" /\ iterTrace # << >>

----------------------------------------------------------------------------
(* C1 *)

\* C1 (as claimed): once a Closed event has been polled, no draw call and no
\* frame presentation is issued any more.
C1_NoDrawAfterClosed == drawsAfterClose = 0 /\ presentsAfterClose = 0

\* C1 (amended): polling a Closed event makes running false at once, hence
\* before the next draw; the iteration that polled it still draws and
\* presents, exactly once, and no further iteration starts: the process
\* exits with one draw and one present after the Closed event.
C1_StoppedBeforeNextDraw ==
    /\ closedSeen => ~running
    /\ drawsAfterClose <= 1
    /\ presentsAfterClose <= 1
    /\ (pc = "exited" /\ closedSeen) =>
          (drawsAfterClose = 1 /\ presentsAfterClose = 1 /\ exitCode = 0)
    /\ (closedSeen /\ pc = "poll") => (drawsAfterClose = 0 /\ presentsAfterClose = 0)
    /\ (IterationEnded /\ closedSeen) => (drawsAfterClose = 1 /\ presentsAfterClose = 1)

C1_Witness ==
    pc = "exited" /\ closedSeen /\ drawsAfterClose = 1 /\ presentsAfterClose = 1

----------------------------------------------------------------------------
(* C2 *)

\* C2 (as claimed): while constructMesh holds its index list, the mesh's face
\* count is a third of the list's length; the literal triangle reports 1.
C2_FaceCountIsTriangles ==
    (haveMesh /\ pc \in InsideConstructMesh /\ Len(faces) % 3 = 0) =>
        /\ m.faces = Len(faces) \div 3
        /\ sceneKind = "triangle" => m.faces = 1

\* C2 (amended): the mesh's faces field equals the length of the index list
\* (three times the number of triangles); the literal triangle reports 3.
C2_FaceCountIsIndexCount ==
    (haveMesh /\ pc \in InsideConstructMesh /\ Len(faces) % 3 = 0) =>
        /\ m.faces = Len(faces)
        /\ sceneKind = "triangle" => (faces = << 2, 1, 0 >> /\ m.faces = 3)

C2_Witness ==
    /\ haveMesh /\ pc = "cm_return" /\ sceneKind = "triangle"
    /\ faces = << 2, 1, 0 >> /\ m.faces = 3

----------------------------------------------------------------------------
(* C3 *)

\* C3: once assimpLoad has examined an import that returned no scene or a
\* scene without meshes, the process has exited with a non-zero status and the
\* ASSIMP diagnostic, and neither fromAssimpMesh nor constructMesh has run and
\* no GPU object exists.
C3_ImportFailureIsFatal ==
    (importOutcome \in {"null", "empty"} /\ pc # "al_check") =>
        /\ pc = "exited"
        /\ exitCode > 0
        /\ diagnostic = "ASSIMP ERROR"
        /\ ~fromAssimpCalled
        /\ ~constructCalled
        /\ glVAOs = {} /\ glBuffers = {}

----------------------------------------------------------------------------
(* C4 *)

\* C4: on return from fromAssimpMesh for a mesh of the scene, the vertex list
\* has one record per source vertex, in order, carrying its position and its
\* first-channel UV, and the index list is the faces' index triples in order.
C4_VerticesCarryUV ==
    (pc = "cm_begin" /\ sceneKind = "bunny" /\ importOutcome = "ok") =>
        /\ Len(vertices) = Len(srcMesh.mVertices)
        /\ \A i \in 1..Len(vertices) :
              /\ << vertices[i].x, vertices[i].y, vertices[i].z >> = srcMesh.mVertices[i]
              /\ << vertices[i].u, vertices[i].v >> = srcMesh.mTextureCoords0[i]
        /\ Len(faces) = 3 * Len(srcMesh.mFaces)
        /\ \A f \in 1..Len(srcMesh.mFaces) : \A j \in 1..3 :
              faces[3 * (f - 1) + j] = srcMesh.mFaces[f][j]

----------------------------------------------------------------------------
(* C5 *)

\* C5: when shader.load has thrown, the diagnostic is printed, the process
\* has exited with status 1, and the render loop was never entered: no
\* program activated, no uniform set, no draw call, no frame presented.
C5_ShaderFailureIsFatal ==
    shaderOutcome = "runtime_error" =>
        /\ pc = "exited"
        /\ exitCode = 1
        /\ diagnostic = "ERROR: shader"
        /\ activeProgram = 0
        /\ uniforms = {}
        /\ iterTrace = << >>
        /\ lastDraw = NoDraw
        /\ drawMeshCalls = 0

C5_Witness ==
    shaderOutcome = "runtime_error" /\ pc = "exited" /\ haveMesh /\ m.texture # 0

----------------------------------------------------------------------------
(* C6 *)

\* C6: the loop flag is true until a Closed event is polled; it becomes false
\* only in the step that polls a Closed event; it never becomes true again;
\* a process that exits with the flag false exits with status 0; and once the
\* flag is false, or a Closed event is queued while the loop runs, the
\* process eventually exits with status 0.
C6_TwoStateLoop ==
    /\ [](~closedSeen => running)
    /\ [][(running /\ ~running') =>
            (pc = "poll" /\ pending # << >> /\ Head(pending) = "Closed")]_vars
    /\ [][~running => ~running']_vars
    /\ []((pc = "exited" /\ ~running) => exitCode = 0)
    /\ [][(pc = "loop_test" /\ ~running /\ pc' # pc) =>
            (pc' = "exited" /\ exitCode' = 0)]_vars
    /\ (~running) ~> (pc = "exited" /\ exitCode = 0)
    /\ (pc \in InLoop /\ "Closed" \in Range(pending)) ~> (pc = "exited" /\ exitCode = 0)

C6_Witness ==
    pc = "exited" /\ exitCode = 0 /\ ~running /\ closedSeen /\ delivered = MaxEvents

----------------------------------------------------------------------------
(* C7 *)

\* C7: on return from drawMesh exactly one glDrawElements call was issued by
\* it, in GL_TRIANGLES mode, over as many indices as the index buffer of the
\* mesh's vertex array holds (3 for the literal triangle); and every finished
\* iteration made exactly one drawMesh call.
C7_OneDrawPerFrame ==
    /\ glDrawsInCall <= 1
    /\ drawMeshCalls <= 1
    /\ pc = "display" =>
          /\ glDrawsInCall = 1
          /\ lastDraw.mode = "GL_TRIANGLES"
          /\ lastDraw.vao = m.vao
          /\ lastDraw.count = Len(bufferData[vaoElementBuffer[m.vao]])
          /\ sceneKind = "triangle" => lastDraw.count = 3
    /\ IterationEnded => drawMeshCalls = 1

C7_Witness ==
    /\ IterationEnded /\ drawMeshCalls = 1 /\ glDrawsInCall = 1
    /\ lastDraw.count = 6 /\ Len(bufferData[vaoElementBuffer[m.vao]]) = 6

----------------------------------------------------------------------------
(* C8 *)

\* C8: the steps of an iteration happen in the order drain, measure, view,
\* projection, model, clear, draw, present; a draw call is issued with a
\* program active and all three matrices pushed in this iteration; a
\* finished iteration went through every step.
C8_IterationOrder ==
    /\ IsPrefix(iterTrace, IterationOrder)
    /\ pc = "dm_unbindVAO" =>
          /\ lastDraw.program # 0
          /\ { "model", "view", "projection" } \subseteq uniforms
          /\ iterTrace = << "drain", "measure", "view", "projection", "model", "clear" >>
    /\ IterationEnded => iterTrace = IterationOrder

C8_Witness == IterationEnded /\ iterTrace = IterationOrder /\ lastDraw.program = 1

----------------------------------------------------------------------------
(* C9 *)

\* C9: a vertex array is bound only inside constructMesh or drawMesh, and then
\* it is the mesh's own; on return from constructMesh no vertex array is
\* bound; on entry to drawMesh none is bound; on return from drawMesh neither
\* a vertex array nor a 2D texture is bound.
C9_BindUnbind ==
    /\ boundVAO # 0 => (pc \in InsideConstructMesh \cup InsideDrawMesh /\ boundVAO = m.vao)
    /\ pc \in { "cm_return", "set_texture" } => boundVAO = 0
    /\ pc = "dm_bindTexture" => boundVAO = 0
    /\ pc = "display" => (boundVAO = 0 /\ boundTexture = 0)

C9_Witness ==
    pc = "display" /\ lastDraw.vao # 0 /\ lastDraw.texture # 0
        /\ boundVAO = 0 /\ boundTexture = 0

----------------------------------------------------------------------------
(* C10 *)

\* C10: every mesh has a faces field that is a multiple of 3; once set by
\* constructMesh the field never changes; the texture field is assigned at
\* most once, after construction, and nothing else of the mesh changes then.
C10_MeshInvariant ==
    /\ [](haveMesh => m.faces % 3 = 0)
    /\ [][haveMesh => m'.faces = m.faces]_vars
    /\ [][m'.texture # m.texture => (pc = "set_texture" /\ textureSets = 0)]_vars
    /\ [](textureSets <= 1)

C10_Witness ==
    haveMesh /\ sceneKind = "bunny" /\ m.faces = 6 /\ m.texture # 0 /\ textureSets = 1

====
